---- MODULE Spec2Model ----
(***************************************************************************)
(* External-id rotation lambda (src/lambda/external-id-rotation-lambda)    *)
(* driving the version-staging operations of AWS Secrets Manager, and the  *)
(* secret that src/lib/IamRoleExternalAccess.ts provisions for it.         *)
(*                                                                         *)
(* Strings are TLA+ strings; a character is a string of length one, taken  *)
(* with SubSeq, so that length and character tests are computed.           *)
(***************************************************************************)
EXTENDS Integers, Sequences, FiniteSets, TLC

(* ------------------------------ bounds -------------------------------- *)

\* Seeds of the random source: seeds 0..MaxSeed give MaxSeed+1 byte strings.
MaxSeed == 1

(* --------------------------- characters ------------------------------- *)

UpperChars == "ABCDEFGHIJKLMNOPQRSTUVWXYZ"

LowerChars == "abcdefghijklmnopqrstuvwxyz"

DigitChars == "0123456789"

\* Punctuation of GetRandomPassword without the excludeCharacters of the secret
\* (space, double quote, backslash, single quote); the grave accent is left
\* out of the model.
PunctChars == "!#$%&()*+,-./:;<=>?@[]^_{|}~"

\* s.charAt(i), i counted from 0; the empty string outside the string
charAt(s, i) == IF i >= 0 /\ i < Len(s) THEN SubSeq(s, i + 1, i + 1) ELSE ""

Range(s) == { charAt(s, i) : i \in 0..(Len(s) - 1) }

\* const characters = "ABC...XYZabc...xyz0123456789"
characters == UpperChars \o LowerChars \o DigitChars

\* const length = 32
length == 32

\* /^[a-zA-Z0-9]+$/
AlnumChars == Range(UpperChars) \cup Range(LowerChars) \cup Range(DigitChars)

IsAlnum(c) == c \in AlnumChars

MatchesAlnumPlus(s) ==
  Len(s) >= 1 /\ \A i \in 0..(Len(s) - 1) : IsAlnum(charAt(s, i))

(* ----------------------------- generator ------------------------------ *)

\* randomBytes(length): the byte strings the model draws, one per seed.
randomBytes(seed) == [ i \in 0..(length - 1) |-> (seed * 67 + (i + 1) * 29) % 256 ]

Seeds == 0..MaxSeed

\* The generator with the byte taken as the index: charAt(randomValues[i])
generateSecureExternalId_NoModulo(randomValues) ==
  LET RECURSIVE loop(_, _)
      loop(i, result) ==
        IF i < length
        THEN loop(i + 1, result \o charAt(characters, randomValues[i]))
        ELSE result
  IN  loop(0, "")

\* for (let i = 0; i < length; i++)
\*   result += characters.charAt(randomValues[i] % characters.length)
generateSecureExternalId(randomValues) ==
  LET RECURSIVE loop(_, _)
      loop(i, result) ==
        IF i < length
        THEN loop(i + 1,
                  result \o charAt(characters, randomValues[i] % Len(characters)))
        ELSE result
  IN  loop(0, "")

\* What the generator returns for each byte string drawn, computed once.
GeneratedIds ==
  [ seed \in Seeds |-> generateSecureExternalId(randomBytes(seed)) ]

(* ------------------------------ payload ------------------------------- *)

\* A JavaScript value as far as the validator distinguishes values.
Undefined == [type |-> "undefined", val |-> ""]
Null == [type |-> "null", val |-> ""]
Str(s) == [type |-> "string", val |-> s]
Num(n) == [type |-> "number", val |-> n]
Bool(b) == [type |-> "boolean", val |-> b]
Obj == [type |-> "object", val |-> ""]

\* !v : undefined, null, "", 0 and false are falsy
Falsy(v) ==
  \/ v.type \in {"undefined", "null"}
  \/ (v.type = "string" /\ Len(v.val) = 0)
  \/ (v.type = "number" /\ v.val = 0)
  \/ (v.type = "boolean" /\ v.val = FALSE)

JsonPrefix == "{\"externalId\":\""
JsonSuffix == "\"}"

\* The payload written under another field name
JSONstringify_OtherField(s) == "{\"external_id\":\"" \o s \o JsonSuffix

\* JSON.stringify({ externalId: s }) for s without characters to escape
JSONstringify(s) == JsonPrefix \o s \o JsonSuffix

HasPrefix(s, p) == Len(s) >= Len(p) /\ SubSeq(s, 1, Len(p)) = p
HasSuffix(s, p) == Len(s) >= Len(p) /\ SubSeq(s, Len(s) - Len(p) + 1, Len(s)) = p

\* JSON texts of objects whose externalId is not a string, or is absent
JsonObjects ==
  { [text |-> "{}",                     externalId |-> Undefined],
    [text |-> "{\"externalId\":null}",  externalId |-> Null],
    [text |-> "{\"externalId\":0}",     externalId |-> Num(0)],
    [text |-> "{\"externalId\":1}",     externalId |-> Num(1)],
    [text |-> "{\"externalId\":false}", externalId |-> Bool(FALSE)],
    [text |-> "{\"externalId\":true}",  externalId |-> Bool(TRUE)],
    [text |-> "{\"externalId\":{}}",    externalId |-> Obj] }

IsJsonOfString(str) ==
  /\ Len(str) >= Len(JsonPrefix) + Len(JsonSuffix)
  /\ HasPrefix(str, JsonPrefix) /\ HasSuffix(str, JsonSuffix)

\* JSON.parse(str) returns; it throws a SyntaxError on any other text
IsJson(str) == IsJsonOfString(str) \/ \E o \in JsonObjects : o.text = str

\* JSON.parse(str).externalId ; an object without the field gives undefined
JSONparseExternalId(str) ==
  IF IsJsonOfString(str)
  THEN Str(SubSeq(str, Len(JsonPrefix) + 1, Len(str) - Len(JsonSuffix)))
  ELSE IF \E o \in JsonObjects : o.text = str
  THEN (CHOOSE o \in JsonObjects : o.text = str).externalId
  ELSE Undefined

(* ----------------------------- validator ------------------------------ *)

MinExternalIdLen == 8
MaxExternalIdLen == 1224

\* validateExternalId: "ok", or the reason of the Error it throws
validateExternalId(externalId) ==
  IF Falsy(externalId) THEN "Missing"
  ELSE IF externalId.type # "string" THEN "WrongType"
  ELSE IF Len(externalId.val) < MinExternalIdLen THEN "TooShort"
  ELSE IF Len(externalId.val) > MaxExternalIdLen THEN "TooLong"
  ELSE IF ~MatchesAlnumPlus(externalId.val) THEN "InvalidCharacters"
  ELSE "ok"

(* --------------------------- provisioning ----------------------------- *)

\* generateSecretString.passwordLength
passwordLength == 32

\* GetRandomPassword draws from letters, digits and punctuation: the secret
\* sets neither excludePunctuation nor any other exclude flag.
PasswordChars == UpperChars \o LowerChars \o DigitChars \o PunctChars

RandomPassword(seed) ==
  LET RECURSIVE draw(_, _)
      draw(i, result) ==
        IF i < passwordLength
        THEN draw(i + 1,
                  result \o charAt(PasswordChars,
                                   (seed * 53 + (i + 1) * 37) % Len(PasswordChars)))
        ELSE result
  IN  draw(0, "")

PasswordSeeds == {0}

\* requireEachIncludedType: true
RequireEachIncludedType(p) ==
  /\ Range(p) \cap Range(UpperChars) # {}
  /\ Range(p) \cap Range(LowerChars) # {}
  /\ Range(p) \cap Range(DigitChars) # {}
  /\ Range(p) \cap Range(PunctChars) # {}

\* The SecretString of the version the stack creates: secretStringTemplate "{}"
\* with the password under generateStringKey "externalId".
createExternalIdSecret ==
  { JSONstringify(RandomPassword(seed)) :
      seed \in { x \in PasswordSeeds : RequireEachIncludedType(RandomPassword(x)) } }

(* ------------------------- stack properties --------------------------- *)

\* s.startsWith(p), s.includes(sub)
startsWith(s, p) == HasPrefix(s, p)

includes(s, sub) ==
  \E i \in 0..(Len(s) - Len(sub)) : SubSeq(s, i + 1, i + Len(sub)) = sub

\* /^\d{12}$/
AccountIdLength == 12

MatchesAccountId(s) ==
  /\ Len(s) = AccountIdLength
  /\ \A i \in 0..(Len(s) - 1) : charAt(s, i) \in Range(DigitChars)

\* What the constructor ends with: done, or the Error thrown.  index is the
\* index forEach had reached, -1 where the message names none.
Constructed == [err |-> "none", index |-> -1]
Thrown(e, i) == [err |-> e, index |-> i]

\* The first index of the array at which the test fails; -1 if there is none.
\* bad[i] tells whether the test fails at the i-th element.
FirstFailing(bad) ==
  IF \E i \in 1..Len(bad) : bad[i]
  THEN (CHOOSE i \in 1..Len(bad) :
          bad[i] /\ \A j \in 1..(i - 1) : ~bad[j]) - 1
  ELSE -1

\* validateProps looking at the elements before the arrays' lengths
validateProps_ElementsFirst(props) ==
  LET BadPrincipal(arn) == \/ ~startsWith(arn, "arn:aws:iam::")
                           \/ ~includes(arn, props.externalAccountId)
      BadBucket(arn)    == ~startsWith(arn, "arn:aws:s3:::")
      badPrincipals == [i \in 1..Len(props.externalPrincipalArns) |->
                          BadPrincipal(props.externalPrincipalArns[i])]
      badBuckets    == [i \in 1..Len(props.s3BucketArns) |->
                          BadBucket(props.s3BucketArns[i])]
  IN  IF Len(props.externalAccountId) = 0
         \/ ~MatchesAccountId(props.externalAccountId)
      THEN Thrown("externalAccountId", -1)
      ELSE IF FirstFailing(badPrincipals) # -1
      THEN Thrown("externalPrincipalArns[index]",
                  FirstFailing(badPrincipals))
      ELSE IF FirstFailing(badBuckets) # -1
      THEN Thrown("s3BucketArns[index]",
                  FirstFailing(badBuckets))
      ELSE IF Len(props.externalPrincipalArns) = 0
      THEN Thrown("externalPrincipalArns", -1)
      ELSE IF Len(props.s3BucketArns) = 0
      THEN Thrown("s3BucketArns", -1)
      ELSE Constructed

validateProps(props) ==
  LET BadPrincipal(arn) == \/ ~startsWith(arn, "arn:aws:iam::")
                           \/ ~includes(arn, props.externalAccountId)
      BadBucket(arn)    == ~startsWith(arn, "arn:aws:s3:::")
      badPrincipals == [i \in 1..Len(props.externalPrincipalArns) |->
                          BadPrincipal(props.externalPrincipalArns[i])]
      badBuckets    == [i \in 1..Len(props.s3BucketArns) |->
                          BadBucket(props.s3BucketArns[i])]
  IN  IF Len(props.externalAccountId) = 0
         \/ ~MatchesAccountId(props.externalAccountId)
      THEN Thrown("externalAccountId", -1)
      ELSE IF Len(props.externalPrincipalArns) = 0
      THEN Thrown("externalPrincipalArns", -1)
      ELSE IF Len(props.s3BucketArns) = 0
      THEN Thrown("s3BucketArns", -1)
      ELSE IF FirstFailing(badPrincipals) # -1
      THEN Thrown("externalPrincipalArns[index]",
                  FirstFailing(badPrincipals))
      ELSE IF FirstFailing(badBuckets) # -1
      THEN Thrown("s3BucketArns[index]",
                  FirstFailing(badBuckets))
      ELSE Constructed

\* props.externalIdRotationDays ?? 30
DefaultRotationDays == 30

\* cdk.Duration.days(rotationDays) refuses a negative amount
DurationDays(amount) ==
  IF amount < 0 THEN Thrown("Duration amounts cannot be negative", -1)
  ELSE Constructed

\* constructor: validateProps, then the constructs; of these the rotation
\* schedule takes a property that validateProps has not looked at.
CrossAccountAccessStack(props) ==
  LET rotationDays == IF props.externalIdRotationDays.type = "undefined"
                      THEN DefaultRotationDays
                      ELSE props.externalIdRotationDays.val
  IN  IF validateProps(props) # Constructed THEN validateProps(props)
      ELSE DurationDays(rotationDays)

(* ------------------------------- store -------------------------------- *)

\* Version ids: the version the stack created, and one per request token
\* (PutSecretValue names the version after its ClientRequestToken).
InitialVersion == "v0"
Tokens == {"t1", "t2"}
VersionIds == {InitialVersion} \cup Tokens

\* previousVersionId?: string -- NoVersion is undefined
NoVersion == "undefined"

StageLabels == {"AWSCURRENT", "AWSPENDING", "AWSPREVIOUS"}

Exists(vs, id) == \E v \in vs : v.id = id

Holders(ls, stage) == { v \in VersionIds : stage \in ls[v] }

\* Attach a label to one version, taking it off every other one.
Attach(ls, stage, id) ==
  [ v \in VersionIds |-> IF v = id THEN ls[v] \cup {stage} ELSE ls[v] \ {stage} ]

Outcome(e, vs, ls) == [err |-> e, versions |-> vs, labels |-> ls]

\* PutSecretValue that replaces the value of a version that exists.
PutSecretValue_Overwrite(vs, ls, token, secretString, stage) ==
  { Outcome("ok",
            { v \in vs : v.id # token }
              \cup {[id |-> token, value |-> secretString]},
            Attach(ls, stage, token)) }

\* PutSecretValue that leaves the label on the version that had it.
PutSecretValue_KeepLabel(vs, ls, token, secretString, stage) ==
  IF Exists(vs, token)
  THEN IF [id |-> token, value |-> secretString] \in vs
       THEN { Outcome("ok", vs, ls) }
       ELSE { Outcome("ResourceExistsException", vs, ls) }
  ELSE { Outcome("ok",
                 vs \cup {[id |-> token, value |-> secretString]},
                 [ls EXCEPT ![token] = @ \cup {stage}]) }

\* PutSecretValue { ClientRequestToken, SecretString, VersionStages: [stage] }.
\* A version with this token and the same SecretString: the request is
\* ignored.  A version with this token and another SecretString: the request
\* fails, a version cannot be modified.  Otherwise the version is created and
\* the label moves to it.
PutSecretValue(vs, ls, token, secretString, stage) ==
  IF Exists(vs, token)
  THEN IF [id |-> token, value |-> secretString] \in vs
       THEN { Outcome("ok", vs, ls) }
       ELSE { Outcome("ResourceExistsException", vs, ls) }
  ELSE { Outcome("ok",
                 vs \cup {[id |-> token, value |-> secretString]},
                 Attach(ls, stage, token)) }

\* GetSecretValue { VersionId, VersionStage }: both must name the same version.
GetSecretValue(vs, ls, versionId, stage) ==
  IF Exists(vs, versionId) /\ stage \in ls[versionId]
  THEN { [err |-> "ok", SecretString |-> v.value] : v \in { w \in vs : w.id = versionId } }
  ELSE { [err |-> "ResourceNotFoundException", SecretString |-> ""] }

\* UpdateSecretVersionStage { VersionStage, MoveToVersionId, RemoveFromVersionId }.
\* One atomic change of the label.  If the label is attached to a version,
\* RemoveFromVersionId must name that version, or the operation fails.  Moving
\* AWSCURRENT moves AWSPREVIOUS to the version AWSCURRENT came from.  Removing a
\* label that no version carries is not specified: both outcomes are kept.
UpdateSecretVersionStage(vs, ls, stage, moveTo, removeFrom) ==
  LET holders  == Holders(ls, stage)
      removed  == IF removeFrom = NoVersion THEN ls
                  ELSE [ls EXCEPT ![removeFrom] = @ \ {stage}]
      attached == IF moveTo = NoVersion THEN removed
                  ELSE [removed EXCEPT ![moveTo] = @ \cup {stage}]
      result   == IF stage = "AWSCURRENT" /\ moveTo # NoVersion
                     /\ removeFrom # NoVersion /\ removeFrom # moveTo
                  THEN Attach(attached, "AWSPREVIOUS", removeFrom)
                  ELSE attached
  IN  IF moveTo # NoVersion /\ ~Exists(vs, moveTo)
      THEN { Outcome("ResourceNotFoundException", vs, ls) }
      ELSE IF removeFrom # NoVersion /\ ~Exists(vs, removeFrom)
      THEN { Outcome("ResourceNotFoundException", vs, ls) }
      ELSE IF removeFrom # NoVersion /\ stage \notin ls[removeFrom]
      THEN IF holders # {}
           THEN { Outcome("InvalidParameterException", vs, ls) }
           ELSE { Outcome("InvalidParameterException", vs, ls),
                  Outcome("ok", vs, result) }
      ELSE IF removeFrom = NoVersion /\ moveTo # NoVersion /\ holders \ {moveTo} # {}
      THEN { Outcome("InvalidParameterException", vs, ls) }
      ELSE { Outcome("ok", vs, result) }

\* await client.send(command): the call as the lambda sees it.  The store may
\* be unavailable (nothing happens, the call throws), or the call may take
\* effect and its response be lost (the call throws all the same).
Faults == {"none", "unavailable", "lost"}

send(fault, vs, ls, outcomes) ==
  CASE fault = "none"        -> outcomes
    [] fault = "unavailable" -> { Outcome("ServiceUnavailable", vs, ls) }
    [] fault = "lost"        -> { [o EXCEPT !.err = "TimeoutError"] : o \in outcomes }

(* ------------------------------- state -------------------------------- *)

VARIABLES
  versions,    \* the store: the versions of the secret, [id, value]
  labels,      \* the store: the staging labels of each version id
  inflight,    \* the finishSecret invocation between its two store calls
  last,        \* the invocation that completed last, and what it returned
  firstValue,  \* history: the SecretString each version was created with
  tested,      \* history: tokens for which a testSecret invocation succeeded
  ordered,     \* history: every finishSecret so far was for a tested token
  trigger,     \* the rotation attempt of the trigger, when it drives the phases
  call,        \* a function called on its own: [fn, done, input, output]
  secrets,     \* several secrets behind one handler: the store of each SecretId
  alone        \* history: the store of each secret had only its invocations run

vars == <<versions, labels, inflight, last, firstValue, tested, ordered,
          trigger, call, secrets, alone>>

NoValue == ""

Current(ls) == Holders(ls, "AWSCURRENT")

\* The trigger is not modelled: any invocation may come at any time.
Off == [phase |-> "off", token |-> NoVersion, prev |-> NoVersion, tick |-> 0,
        clean |-> TRUE]

StoreInit ==
  /\ \E secretString \in createExternalIdSecret :
       /\ versions = {[id |-> InitialVersion, value |-> secretString]}
       /\ firstValue = [v \in VersionIds |->
                          IF v = InitialVersion THEN secretString ELSE NoValue]
  /\ labels = [v \in VersionIds |->
                 IF v = InitialVersion THEN {"AWSCURRENT"} ELSE {}]
  /\ inflight = [active |-> FALSE, token |-> NoVersion, prev |-> NoVersion,
                 retry |-> FALSE, before |-> labels]
  /\ last = [step |-> "none", token |-> NoVersion, prev |-> NoVersion,
             result |-> "none", fault |-> "none", wrote |-> FALSE, calls |-> 0,
             retry |-> FALSE, afterWrite |-> FALSE, afterLost |-> FALSE,
             validated |-> FALSE, before |-> labels]
  /\ tested = {}
  /\ ordered = TRUE

\* No function has been called on its own.
NoCall == [fn |-> "none", done |-> FALSE, input |-> Undefined, output |-> "none"]

\* The secrets of the stacks that share the handler, as provisioned.
SecretIds == {"s1", "s2"}

Provisioned ==
  [versions |-> {[id |-> InitialVersion,
                  value |-> CHOOSE secretString \in createExternalIdSecret : TRUE]},
   labels |-> [v \in VersionIds |->
                 IF v = InitialVersion THEN {"AWSCURRENT"} ELSE {}],
   removing |-> NoVersion]

OneSecret == secrets = [s \in SecretIds |-> Provisioned] /\ alone = secrets

Init == StoreInit /\ trigger = Off /\ call = NoCall /\ OneSecret

\* The record of a completed invocation.  result is "ok" when the handler
\* returned { statusCode: 200 }, otherwise the error it rethrew.
\*   fault: the transport failure the invocation met, if any
\*   wrote: the invocation added a version to the store
\*   calls: the number of store calls the invocation made
\*   retry: the invocation before it was the same event and returned 200
\*   afterWrite: moreover that invocation added the version of the token
\*   afterLost: the invocation before it was a createSecret of the same token
\*              that added the version of the token and yet threw
\*   validated: the invocation called validateExternalId; testSecret, the
\*              one phase that calls it, sets it
\*   before: the labels when the invocation began
Completed(step, token, prev, result, fault, wrote, calls, retry, before) ==
  [step |-> step, token |-> token, prev |-> prev, result |-> result,
   fault |-> fault, wrote |-> wrote, calls |-> calls, retry |-> retry,
   afterWrite |-> retry /\ last.wrote,
   afterLost |-> /\ last.step = "createSecret" /\ last.token = token
                 /\ last.wrote /\ last.result # "ok",
   validated |-> FALSE,
   before |-> before]

IsRetry(step, token, prev) ==
  /\ last.step = step /\ last.token = token /\ last.prev = prev
  /\ last.result = "ok"

RecordCreated(newVersions) ==
  firstValue' = [v \in VersionIds |->
                   IF firstValue[v] = NoValue /\ Exists(newVersions, v)
                   THEN (CHOOSE w \in newVersions : w.id = v).value
                   ELSE firstValue[v]]

(* ------------------------------ phases -------------------------------- *)

\* createSecret with the stage mistaken: VersionStages: ["AWSCURRENT"]
createSecret_StageCurrent(token, seed, fault) ==
  LET newSecretValue == JSONstringify(GeneratedIds[seed])
      fresh          == ~Exists(versions, token)
  IN  /\ \E o \in send(fault, versions, labels,
                       PutSecretValue(versions, labels, token,
                                      newSecretValue, "AWSCURRENT")) :
           /\ versions' = o.versions
           /\ labels' = o.labels
           /\ RecordCreated(o.versions)
           /\ last' = Completed("createSecret", token, NoVersion, o.err,
                                fault, fresh /\ Exists(o.versions, token), 1,
                                IsRetry("createSecret", token, NoVersion),
                                labels)
      /\ UNCHANGED <<inflight, tested, ordered>>

\* createSecret with the store call in a try/catch that only logs
createSecret_Swallow(token, seed, fault) ==
  LET newSecretValue == JSONstringify(GeneratedIds[seed])
      fresh          == ~Exists(versions, token)
  IN  /\ \E o \in send(fault, versions, labels,
                       PutSecretValue(versions, labels, token,
                                      newSecretValue, "AWSPENDING")) :
           /\ versions' = o.versions
           /\ labels' = o.labels
           /\ RecordCreated(o.versions)
           /\ last' = Completed("createSecret", token, NoVersion, "ok",
                                fault, fresh /\ Exists(o.versions, token), 1,
                                IsRetry("createSecret", token, NoVersion),
                                labels)
      /\ UNCHANGED <<inflight, tested, ordered>>

\* createSecret that, after the put, throws when another version carried
\* AWSPENDING before it
createSecret_ThrowAfterPut(token, seed, fault) ==
  LET newSecretValue == JSONstringify(GeneratedIds[seed])
      fresh          == ~Exists(versions, token)
      others         == Holders(labels, "AWSPENDING") \ {token}
  IN  /\ \E o \in send(fault, versions, labels,
                       PutSecretValue(versions, labels, token,
                                      newSecretValue, "AWSPENDING")) :
           /\ versions' = o.versions
           /\ labels' = o.labels
           /\ RecordCreated(o.versions)
           /\ last' = Completed("createSecret", token, NoVersion,
                                IF o.err = "ok" /\ others # {}
                                THEN "PendingExists" ELSE o.err,
                                fault, fresh /\ Exists(o.versions, token), 1,
                                IsRetry("createSecret", token, NoVersion),
                                labels)
      /\ UNCHANGED <<inflight, tested, ordered>>

\* Step 1: generate an external id and put it as AWSPENDING
createSecret(token, seed, fault) ==
  LET newExternalId  == GeneratedIds[seed]
      newSecretValue == JSONstringify(newExternalId)
      fresh          == ~Exists(versions, token)
  IN  /\ \E o \in send(fault, versions, labels,
                       PutSecretValue(versions, labels, token,
                                      newSecretValue, "AWSPENDING")) :
           /\ versions' = o.versions
           /\ labels' = o.labels
           /\ RecordCreated(o.versions)
           /\ last' = Completed("createSecret", token, NoVersion, o.err,
                                fault, fresh /\ Exists(o.versions, token), 1,
                                IsRetry("createSecret", token, NoVersion),
                                labels)
      /\ UNCHANGED <<inflight, tested, ordered>>

\* setSecret that looks for the pending version of the token first
setSecret_ChecksPending(token) ==
  /\ \E response \in GetSecretValue(versions, labels, token, "AWSPENDING") :
       last' = Completed("setSecret", token, NoVersion, response.err, "none",
                         FALSE, 1, IsRetry("setSecret", token, NoVersion),
                         labels)
  /\ UNCHANGED <<versions, labels, inflight, firstValue, tested, ordered>>

\* Step 2: nothing to set up
setSecret(token) ==
  /\ last' = Completed("setSecret", token, NoVersion, "ok", "none", FALSE, 0,
                       IsRetry("setSecret", token, NoVersion), labels)
  /\ UNCHANGED <<versions, labels, inflight, firstValue, tested, ordered>>

\* testSecret with the read by stage only: GetSecretValue without VersionId
\* answers with whichever version carries AWSPENDING.
testSecret_AnyPending(token, fault) ==
  /\ fault # "lost"
  /\ \E response \in
        IF fault = "none"
        THEN UNION { GetSecretValue(versions, labels, v, "AWSPENDING") :
                       v \in IF Holders(labels, "AWSPENDING") = {} THEN {token}
                             ELSE Holders(labels, "AWSPENDING") }
        ELSE { [err |-> "ServiceUnavailable", SecretString |-> ""] } :
       LET result ==
             IF response.err # "ok" THEN response.err
             ELSE IF Len(response.SecretString) = 0 THEN "NoSecretString"
             ELSE IF ~IsJson(response.SecretString) THEN "SyntaxError"
             ELSE validateExternalId(JSONparseExternalId(response.SecretString))
       IN  /\ last' = [Completed("testSecret", token, NoVersion, result,
                                 fault, FALSE, 1,
                                 IsRetry("testSecret", token, NoVersion),
                                 labels)
                         EXCEPT !.validated = response.err = "ok"
                                              /\ Len(response.SecretString) # 0]
           /\ tested' = IF result = "ok" THEN tested \cup {token} ELSE tested
  /\ UNCHANGED <<versions, labels, inflight, firstValue, ordered>>

\* testSecret that reads the pending version and does not validate its value
testSecret_SkipValidation(token, fault) ==
  /\ fault # "lost"
  /\ \E response \in
        IF fault = "none"
        THEN GetSecretValue(versions, labels, token, "AWSPENDING")
        ELSE { [err |-> "ServiceUnavailable", SecretString |-> ""] } :
       LET result ==
             IF response.err # "ok" THEN response.err
             ELSE IF Len(response.SecretString) = 0 THEN "NoSecretString"
             ELSE IF ~IsJson(response.SecretString) THEN "SyntaxError"
             ELSE "ok"
       IN  /\ last' = Completed("testSecret", token, NoVersion, result,
                                fault, FALSE, 1,
                                IsRetry("testSecret", token, NoVersion),
                                labels)
           /\ tested' = IF result = "ok" THEN tested \cup {token} ELSE tested
  /\ UNCHANGED <<versions, labels, inflight, firstValue, ordered>>

\* testSecret that takes AWSPENDING off a version whose value it rejects
testSecret_DropsRejected(token, fault) ==
  /\ fault # "lost"
  /\ \E response \in
        IF fault = "none"
        THEN GetSecretValue(versions, labels, token, "AWSPENDING")
        ELSE { [err |-> "ServiceUnavailable", SecretString |-> ""] } :
       LET result ==
             IF response.err # "ok" THEN response.err
             ELSE IF Len(response.SecretString) = 0 THEN "NoSecretString"
             ELSE IF ~IsJson(response.SecretString) THEN "SyntaxError"
             ELSE validateExternalId(JSONparseExternalId(response.SecretString))
       IN  /\ last' = [Completed("testSecret", token, NoVersion, result,
                                 fault, FALSE, 1,
                                 IsRetry("testSecret", token, NoVersion),
                                 labels)
                         EXCEPT !.validated = response.err = "ok"
                                              /\ Len(response.SecretString) # 0]
           /\ tested' = IF result = "ok" THEN tested \cup {token} ELSE tested
           /\ labels' = IF response.err = "ok" /\ result # "ok"
                        THEN [labels EXCEPT ![token] = @ \ {"AWSPENDING"}]
                        ELSE labels
  /\ UNCHANGED <<versions, inflight, firstValue, ordered>>

\* Step 3: read the AWSPENDING version of the token back and validate it
testSecret(token, fault) ==
  /\ fault # "lost"
  /\ \E response \in
        IF fault = "none"
        THEN GetSecretValue(versions, labels, token, "AWSPENDING")
        ELSE { [err |-> "ServiceUnavailable", SecretString |-> ""] } :
       LET result ==
             IF response.err # "ok" THEN response.err
             ELSE IF Len(response.SecretString) = 0 THEN "NoSecretString"
             ELSE IF ~IsJson(response.SecretString) THEN "SyntaxError"
             ELSE validateExternalId(JSONparseExternalId(response.SecretString))
       IN  /\ last' = [Completed("testSecret", token, NoVersion, result,
                                 fault, FALSE, 1,
                                 IsRetry("testSecret", token, NoVersion),
                                 labels)
                         EXCEPT !.validated = response.err = "ok"
                                              /\ Len(response.SecretString) # 0]
           /\ tested' = IF result = "ok" THEN tested \cup {token} ELSE tested
  /\ UNCHANGED <<versions, labels, inflight, firstValue, ordered>>

\* The first store call of finishSecret: UpdateSecretVersionStage of AWSCURRENT
\* with the MoveToVersionId and RemoveFromVersionId given.  The invocation ends
\* here when the call throws, or when there is no previousVersionId.
finishSecretMoveCurrent(token, previousVersionId, fault, moveTo, removeFrom) ==
  /\ ~inflight.active
  /\ \E o \in send(fault, versions, labels,
                   UpdateSecretVersionStage(versions, labels, "AWSCURRENT",
                                            moveTo, removeFrom)) :
       LET retry == IsRetry("finishSecret", token, previousVersionId)
       IN  /\ versions' = o.versions
           /\ labels' = o.labels
           /\ IF o.err = "ok" /\ previousVersionId # NoVersion
              THEN /\ inflight' = [active |-> TRUE, token |-> token,
                                   prev |-> previousVersionId, retry |-> retry,
                                   before |-> labels]
                   /\ UNCHANGED last
              ELSE /\ last' = Completed("finishSecret", token, previousVersionId,
                                        o.err, fault, FALSE, 1, retry, labels)
                   /\ UNCHANGED inflight
  /\ ordered' = (ordered /\ token \in tested)
  /\ UNCHANGED <<firstValue, tested>>

\* finishSecret with the move split: the first call only takes AWSCURRENT off the
\* previous version (MoveToVersionId left out).
finishSecret_RemoveOnly(token, previousVersionId, fault) ==
  finishSecretMoveCurrent(token, previousVersionId, fault, NoVersion, previousVersionId)

\* finishSecret with the target mistaken: MoveToVersionId is whichever version carries
\* AWSPENDING, not the version of the token.
finishSecret_MovePending(token, previousVersionId, fault) ==
  finishSecretMoveCurrent(token, previousVersionId, fault,
                   IF Holders(labels, "AWSPENDING") = {} THEN token
                   ELSE CHOOSE v \in Holders(labels, "AWSPENDING") : TRUE,
                   previousVersionId)

\* Step 4: MoveToVersionId: token, RemoveFromVersionId: previousVersionId
finishSecret(token, previousVersionId, fault) ==
  finishSecretMoveCurrent(token, previousVersionId, fault, token, previousVersionId)

\* Step 4, second store call: remove AWSPENDING from the previous version
finishSecretRemovePending(fault) ==
  /\ inflight.active
  /\ \E o \in send(fault, versions, labels,
                   UpdateSecretVersionStage(versions, labels, "AWSPENDING",
                                            NoVersion, inflight.prev)) :
       /\ versions' = o.versions
       /\ labels' = o.labels
       /\ last' = Completed("finishSecret", inflight.token, inflight.prev,
                            o.err, fault, FALSE, 2,
                            inflight.retry
                              /\ IsRetry("finishSecret", inflight.token, inflight.prev),
                            inflight.before)
  /\ inflight' = [active |-> FALSE, token |-> NoVersion, prev |-> NoVersion,
                   retry |-> FALSE, before |-> inflight.before]
  /\ UNCHANGED <<firstValue, tested, ordered>>

\* The switch with a default that does nothing: the handler returns 200
invalidStep_Ignored(step, token) ==
  /\ last' = Completed(step, token, NoVersion, "ok", "none", FALSE,
                       0, FALSE, labels)
  /\ UNCHANGED <<versions, labels, inflight, firstValue, tested, ordered>>

\* default: throw new Error(`Invalid step: ${step}`)
invalidStep(step, token) ==
  /\ last' = Completed(step, token, NoVersion, "InvalidStep", "none", FALSE,
                       0, FALSE, labels)
  /\ UNCHANGED <<versions, labels, inflight, firstValue, tested, ordered>>

OtherSteps == {"rotateSecret"}

\* One invocation of the handler: the switch on event.Step
handler ==
  \E token \in Tokens :
    \/ \E seed \in Seeds, fault \in Faults : createSecret(token, seed, fault)
    \/ setSecret(token)
    \/ \E fault \in Faults : testSecret(token, fault)
    \/ \E prev \in VersionIds \cup {NoVersion}, fault \in Faults :
         finishSecret(token, prev, fault)
    \/ \E step \in OtherSteps : invalidStep(step, token)

Next ==
  \/ handler /\ UNCHANGED <<trigger, call, secrets, alone>>
  \/ \E fault \in Faults :
       /\ finishSecretRemovePending(fault)
       /\ UNCHANGED <<trigger, call, secrets, alone>>

Spec == Init /\ [][Next]_vars

(* ------------------- a trigger that drives one attempt ----------------- *)

\* The trigger invokes the four steps in order with one token, passes the
\* version that holds AWSCURRENT as previousVersionId, invokes a step again
\* with the same token when it failed, and goes on when it returned 200.
NextPhase(phase) ==
  CASE phase = "createSecret" -> "setSecret"
    [] phase = "setSecret"    -> "testSecret"
    [] phase = "testSecret"   -> "finishSecret"
    [] phase = "finishSecret" -> "done"

InitRotation ==
  /\ StoreInit
  /\ \E token \in Tokens :
       trigger = [phase |-> "createSecret", token |-> token,
                  prev |-> InitialVersion, tick |-> 0, clean |-> TRUE]
  /\ call = NoCall
  /\ OneSecret

\* tick tells one invocation from the next one; clean: no store call of the
\* attempt has met a transport failure so far
Returned(fault) ==
  /\ trigger' = [trigger EXCEPT
                   !.phase = IF ~inflight'.active /\ last'.result = "ok"
                             THEN NextPhase(@) ELSE @,
                   !.tick = 1 - @,
                   !.clean = @ /\ fault = "none"]
  /\ UNCHANGED <<call, secrets, alone>>

rotate(fault) ==
  /\ ~inflight.active
  /\ \/ /\ trigger.phase = "createSecret"
        /\ \E seed \in Seeds : createSecret(trigger.token, seed, fault)
     \/ /\ trigger.phase = "setSecret"
        /\ fault = "none"
        /\ setSecret(trigger.token)
     \/ /\ trigger.phase = "testSecret"
        /\ testSecret(trigger.token, fault)
     \/ /\ trigger.phase = "finishSecret"
        /\ finishSecret(trigger.token, trigger.prev, fault)
  /\ Returned(fault)

rotateRemovePending(fault) ==
  /\ finishSecretRemovePending(fault)
  /\ Returned(fault)

NextRotation ==
  \E fault \in Faults : rotate(fault) \/ rotateRemovePending(fault)

\* The store is available again and again, and the trigger keeps invoking.
Available == rotate("none") \/ rotateRemovePending("none")

SpecRotation == InitRotation /\ [][NextRotation]_vars /\ WF_vars(Available)

(* ------------------- the functions called on their own ----------------- *)

\* Lengths within MaxPad of 0, of the least and of the greatest length the
\* validator accepts.
MaxPad == 1

Near(n, m) == n - m <= MaxPad /\ m - n <= MaxPad

Lengths ==
  { n \in 0..(MaxExternalIdLen + MaxPad) :
      Near(n, 0) \/ Near(n, MinExternalIdLen) \/ Near(n, MaxExternalIdLen) }

\* c repeated n times
RECURSIVE Repeat(_, _)
Repeat(c, n) ==
  IF n = 0 THEN ""
  ELSE LET half == Repeat(c, n \div 2)
       IN  half \o half \o (IF n % 2 = 1 THEN c ELSE "")

\* Characters the candidates are made of: letters and digits from the ends of
\* their ranges, and characters outside them.
SampleChars == {"a", "z", "A", "Z", "0", "9", "-", "!", "_", "@"}

\* Strings of each length: one character repeated, with any last character.
CandidateStrings ==
  { Repeat(c, n - 1) \o d : c \in SampleChars, d \in SampleChars,
                            n \in Lengths \ {0} }
  \cup {""}

\* The values validateExternalId is called with.
Candidates ==
  { Str(s) : s \in CandidateStrings }
  \cup { Undefined, Null, Obj, Bool(FALSE), Bool(TRUE) }
  \cup { Num(n) : n \in {0, 1, 12345678} }

\* Byte strings randomBytes may return: for every byte value b and every
\* step up to MaxStep, the bytes b, b + step, b + 2 * step, ... (mod 256), and
\* the byte strings the phases draw.
MaxStep == 1

ByteValues == 0..255

ByteStrings ==
  { [ i \in 0..(length - 1) |-> (b + i * step) % 256 ] :
      b \in ByteValues, step \in 0..MaxStep }
  \cup { randomBytes(seed) : seed \in Seeds }

\* The properties the stack is constructed with: account ids of 11, 12 and 13
\* characters, ARNs of the external account, of another account, of another
\* service and of no shape, in arrays of up to MaxArns elements.
MaxArns == 2

AccountIds ==
  {"123456789012", "12345678901", "1234567890123", "12345678901a", ""}

PrincipalArns ==
  {"arn:aws:iam::123456789012:user/ExternalUser",
   "arn:aws:iam::999999999999:role/r123456789012",
   "arn:aws:s3:::bucket-123456789012",
   "invalid-arn"}

BucketArns == {"arn:aws:s3:::my-bucket", "arn:aws:s3:::my-bucket/*", "invalid-s3-arn"}

RotationDays == {Undefined, Num(7), Num(-1)}

ArraysOf(S) == UNION { [1..n -> S] : n \in 0..MaxArns }

StackProps(days) ==
  [externalAccountId : AccountIds,
   externalPrincipalArns : ArraysOf(PrincipalArns),
   s3BucketArns : ArraysOf(BucketArns),
   externalIdRotationDays : days]

ToCall(fn, input) == [fn |-> fn, done |-> FALSE, input |-> input, output |-> "none"]

InitFunctions ==
  /\ StoreInit
  /\ trigger = Off
  /\ OneSecret
  /\ call \in { ToCall("validateExternalId", externalId) :
                   externalId \in Candidates }
              \cup { ToCall("generateSecureExternalId", randomValues) :
                       randomValues \in ByteStrings }
              \cup { ToCall("validateProps", props) :
                       props \in StackProps({Undefined}) }
              \cup { ToCall("CrossAccountAccessStack", props) :
                       props \in StackProps(RotationDays) }

\* The phases do not run while a function is called on its own.
Aside ==
  UNCHANGED <<versions, labels, inflight, last, firstValue, tested, ordered,
              trigger, secrets, alone>>

validate ==
  /\ call.fn = "validateExternalId" /\ ~call.done
  /\ call' = [call EXCEPT !.done = TRUE,
                          !.output = validateExternalId(call.input)]
  /\ Aside

generate ==
  /\ call.fn = "generateSecureExternalId" /\ ~call.done
  /\ call' = [call EXCEPT !.done = TRUE,
                          !.output = generateSecureExternalId(call.input)]
  /\ Aside

validateStackProps ==
  /\ call.fn = "validateProps" /\ ~call.done
  /\ call' = [call EXCEPT !.done = TRUE, !.output = validateProps(call.input)]
  /\ Aside

construct ==
  /\ call.fn = "CrossAccountAccessStack" /\ ~call.done
  /\ call' = [call EXCEPT !.done = TRUE,
                          !.output = CrossAccountAccessStack(call.input)]
  /\ Aside

NextFunctions == validate \/ generate \/ validateStackProps \/ construct

SpecFunctions == InitFunctions /\ [][NextFunctions]_vars

(* ------------------ one handler, several secrets ---------------------- *)

\* Every command carries SecretId: secretArn of the event, and the handler
\* builds its client anew in every invocation: what one store call of a phase
\* does is a function of the store of the secret addressed.  Each result is
\* the error thrown ("ok" if none) and the store of that secret afterwards.
Result(e, st) == [err |-> e, store |-> st]

createSecretOn(st, token, seed) ==
  { Result(o.err, [st EXCEPT !.versions = o.versions, !.labels = o.labels]) :
      o \in PutSecretValue(st.versions, st.labels, token,
                           JSONstringify(GeneratedIds[seed]), "AWSPENDING") }

setSecretOn(st, token) == { Result("ok", st) }

testSecretOn(st, token) ==
  { Result(IF response.err # "ok" THEN response.err
           ELSE IF Len(response.SecretString) = 0 THEN "NoSecretString"
           ELSE validateExternalId(JSONparseExternalId(response.SecretString)),
           st) :
      response \in GetSecretValue(st.versions, st.labels, token, "AWSPENDING") }

\* first store call of finishSecret; removing: the second call is to come
finishSecretOn(st, token, previousVersionId) ==
  { Result(o.err,
           [st EXCEPT !.labels = o.labels,
                      !.removing = IF o.err = "ok" THEN previousVersionId
                                   ELSE NoVersion]) :
      o \in UpdateSecretVersionStage(st.versions, st.labels, "AWSCURRENT",
                                     token, previousVersionId) }

\* second store call of finishSecret
removePendingOn(st) ==
  { Result(o.err, [st EXCEPT !.labels = o.labels, !.removing = NoVersion]) :
      o \in UpdateSecretVersionStage(st.versions, st.labels, "AWSPENDING",
                                     NoVersion, st.removing) }

\* The handler with the secret of its first invocation kept in the process:
\* the calls go to the first secret of the process whatever the event says.
invoke_FirstSecret(secretArn, results, resultsAlone) ==
  \E r \in results :
    /\ secrets' = [secrets EXCEPT !["s1"] = r.store]
    /\ alone' = [alone EXCEPT ![secretArn] =
                   (CHOOSE ra \in resultsAlone : TRUE).store]

\* One store call's worth of an invocation for secretArn, and the same call
\* on the store the secret would have without the other secrets.
invoke(secretArn, results, resultsAlone) ==
  \E r \in results :
    /\ secrets' = [secrets EXCEPT ![secretArn] = r.store]
    /\ alone' = IF \E ra \in resultsAlone : ra.err = r.err
                THEN [alone EXCEPT ![secretArn] =
                        (CHOOSE ra \in resultsAlone : ra.err = r.err).store]
                ELSE [alone EXCEPT ![secretArn].removing = "diverged"]

OtherSide ==
  UNCHANGED <<versions, labels, inflight, last, firstValue, tested, ordered,
              trigger, call>>

createSecretFor(secretArn) ==
  /\ \E token \in Tokens, seed \in Seeds :
       invoke(secretArn, createSecretOn(secrets[secretArn], token, seed),
                         createSecretOn(alone[secretArn], token, seed))
  /\ OtherSide

setSecretFor(secretArn) ==
  /\ \E token \in Tokens :
       invoke(secretArn, setSecretOn(secrets[secretArn], token),
                         setSecretOn(alone[secretArn], token))
  /\ OtherSide

testSecretFor(secretArn) ==
  /\ \E token \in Tokens :
       invoke(secretArn, testSecretOn(secrets[secretArn], token),
                         testSecretOn(alone[secretArn], token))
  /\ OtherSide

finishSecretFor(secretArn) ==
  /\ secrets[secretArn].removing = NoVersion
  /\ \E token \in Tokens, prev \in VersionIds \cup {NoVersion} :
       invoke(secretArn, finishSecretOn(secrets[secretArn], token, prev),
                         finishSecretOn(alone[secretArn], token, prev))
  /\ OtherSide

removePendingFor(secretArn) ==
  /\ secrets[secretArn].removing # NoVersion
  /\ invoke(secretArn, removePendingOn(secrets[secretArn]),
                       removePendingOn(alone[secretArn]))
  /\ OtherSide

NextSecrets ==
  \E secretArn \in SecretIds :
    \/ createSecretFor(secretArn)
    \/ setSecretFor(secretArn)
    \/ testSecretFor(secretArn)
    \/ finishSecretFor(secretArn)
    \/ removePendingFor(secretArn)

SpecSecrets == Init /\ [][NextSecrets]_vars

(* ------------- testSecret on values the lambda did not write ----------- *)

\* SecretStrings another writer of the secret may have put: the JSON of every
\* candidate string, of objects whose externalId is not a string or is
\* absent, a text that is not JSON, and the empty string.
StoredStrings ==
  { JSONstringify(s) : s \in CandidateStrings }
  \cup { o.text : o \in JsonObjects }
  \cup { "not json", "" }

\* Another writer puts a version under one of the tokens, as AWSPENDING or
\* with the default stage AWSCURRENT, while no token has a version.
putByOtherWriter(token, secretString, stage) ==
  /\ \A t \in Tokens : ~Exists(versions, t)
  /\ \E o \in PutSecretValue(versions, labels, token, secretString, stage) :
       /\ versions' = o.versions
       /\ labels' = o.labels
       /\ RecordCreated(o.versions)
  /\ UNCHANGED <<inflight, last, tested, ordered, trigger, call, secrets, alone>>

testStored(token, fault) ==
  /\ testSecret(token, fault)
  /\ UNCHANGED <<trigger, call, secrets, alone>>

NextStored ==
  \/ \E token \in Tokens, secretString \in StoredStrings,
        stage \in {"AWSPENDING", "AWSCURRENT"} :
         putByOtherWriter(token, secretString, stage)
  \/ \E token \in Tokens, fault \in Faults : testStored(token, fault)

SpecStored == Init /\ [][NextStored]_vars

(* ------------------------------ claims -------------------------------- *)

ValueOf(id) == (CHOOSE v \in versions : v.id = id).value

\* C1: a createSecret that repeats, with the same token, a createSecret that
\* succeeded and wrote the version of the token leaves exactly one version for
\* the token, carrying AWSPENDING, with the value the first invocation wrote.
C1_CreateSecretTwice ==
  (last.step = "createSecret" /\ last.afterWrite) =>
     /\ Cardinality({ v \in versions : v.id = last.token }) = 1
     /\ "AWSPENDING" \in labels[last.token]
     /\ \A v \in versions : v.id = last.token => v.value = firstValue[last.token]

\* C1 witness: the second createSecret came with another generated value and
\* the store refused it.
C1_Witness ==
  /\ last.step = "createSecret" /\ last.afterWrite
  /\ last.result = "ResourceExistsException"

\* C2: at all times, also between the two store calls of finishSecret,
\* exactly one version carries AWSCURRENT, and that version exists.
C2_ExactlyOneCurrent ==
  /\ Cardinality(Current(labels)) = 1
  /\ \A id \in Current(labels) : Exists(versions, id)

\* C2 witness: finishSecret is between its store calls and AWSCURRENT has moved.
C2_Witness ==
  /\ inflight.active
  /\ Current(labels) = {inflight.token}
  /\ Current(inflight.before) = {inflight.prev}

\* C3: the value of the version that carries AWSCURRENT passes the validator,
\* from the provisioned secret onwards.
C3_CurrentValid ==
  \A v \in versions :
    v.id \in Current(labels) =>
      validateExternalId(JSONparseExternalId(v.value)) = "ok"

\* C4 as stated: whatever the invocations, the version of a token carries
\* AWSCURRENT only if a testSecret invocation for the token succeeded before.
C4_CurrentOnlyIfTested ==
  \A t \in Tokens : "AWSCURRENT" \in labels[t] => t \in tested

\* C4 amended: as long as the trigger has invoked finishSecret only for tokens
\* whose testSecret had succeeded, the version of a token carries AWSCURRENT
\* only if a testSecret invocation for the token succeeded before.
C4_CurrentOnlyIfTestedInOrder ==
  ordered => \A t \in Tokens : "AWSCURRENT" \in labels[t] => t \in tested

\* C4 witness: a tested version has been made current, all in order.
C4_Witness ==
  /\ ordered
  /\ last.step = "finishSecret" /\ ~inflight.active
  /\ last.token \in tested
  /\ "AWSCURRENT" \in labels[last.token]
  /\ "AWSCURRENT" \notin last.before[last.token]

\* C5: the trigger invokes createSecret, setSecret, testSecret, finishSecret in
\* that order with one token and previousVersionId the version V0 that holds
\* AWSCURRENT; without transport failures all four return 200, and after
\* finishSecret AWSCURRENT is on the version of the token and V0 carries
\* neither AWSCURRENT nor AWSPENDING.
C5_EndToEnd ==
  (trigger.clean /\ last.step # "none" /\ ~inflight.active) =>
     /\ last.result = "ok"
     /\ last.step = "finishSecret" =>
          /\ Current(labels) = {trigger.token}
          /\ labels[trigger.prev] \cap {"AWSCURRENT", "AWSPENDING"} = {}

\* C6: a finishSecret that repeats, without transport failure, a finishSecret
\* that returned 200 (same token, same previousVersionId, which is not the
\* version of the token itself) returns 200 and leaves every label where it
\* was.
C6_FinishSecretTwice ==
  (last.step = "finishSecret" /\ last.retry /\ last.fault = "none"
   /\ last.prev # last.token /\ ~inflight.active) =>
     /\ last.result = "ok"
     /\ labels = last.before

\* C7: when finishSecret reports a failure because one of its store calls
\* found the store unavailable, AWSCURRENT is on the version it was on before
\* the invocation.
C7_FailedFinishKeepsCurrent ==
  (last.step = "finishSecret" /\ last.result # "ok"
   /\ last.fault = "unavailable" /\ ~inflight.active) =>
     Current(labels) = Current(last.before)

\* C8: the reassignment of finishSecret is never seen half-applied: no state
\* between its store calls, and no state a failed invocation leaves, has
\* AWSCURRENT moved from the previous version to the version of the token
\* while the previous version still carries AWSPENDING.
C8_NotHalfApplied ==
  /\ (inflight.active /\ inflight.prev # inflight.token) =>
       ~ /\ "AWSCURRENT" \in labels[inflight.token]
         /\ "AWSPENDING" \in labels[inflight.prev]
  /\ (last.step = "finishSecret" /\ last.result # "ok" /\ ~inflight.active
      /\ last.prev \in VersionIds /\ last.prev # last.token
      /\ "AWSCURRENT" \in last.before[last.prev]) =>
       ~ /\ "AWSCURRENT" \in labels[last.token]
         /\ "AWSPENDING" \in labels[last.prev]

\* C9: createSecret for a token whose pending version exists already returns
\* 200 (no transport failure), and writes no new value.
C9_ExistingPendingIsSuccess ==
  (last.step = "createSecret" /\ last.fault = "none" /\ ~last.wrote
   /\ "AWSPENDING" \in last.before[last.token]) =>
     /\ last.result = "ok"
     /\ ValueOf(last.token) = firstValue[last.token]

\* C10: with the store available again and again and the trigger invoking a
\* failed step again with the same token, the version of the token of the
\* attempt eventually carries AWSCURRENT.
C10_AttemptReachesCurrent ==
  <>(trigger.token \in Tokens /\ "AWSCURRENT" \in labels[trigger.token])

\* C11 as stated: testSecret for a token for which no createSecret invocation
\* has returned 200 does not return 200, fails with the not-found error of the
\* store when the store answers, and leaves the labels where they were.  No
\* createSecret has returned 200 for a token that has no version, nor for a
\* token whose version was added by the invocation just before, which threw.
C11_TestBeforeCreateFails ==
  (last.step = "testSecret"
   /\ (~Exists(versions, last.token) \/ last.afterLost)) =>
     /\ last.result # "ok"
     /\ last.fault = "none" => last.result = "ResourceNotFoundException"
     /\ ~inflight.active => labels = last.before

\* C11 amended: testSecret for a token of which the store holds no version does
\* not return 200, fails with the not-found error of the store when the store
\* answers, and leaves the labels where they were.
C11_TestWithoutVersionFails ==
  (last.step = "testSecret" /\ ~Exists(versions, last.token)) =>
     /\ last.result # "ok"
     /\ last.fault = "none" => last.result = "ResourceNotFoundException"
     /\ ~inflight.active => labels = last.before

\* C11 witness: the token has no version, another token has a pending one,
\* and testSecret was refused.
C11_Witness ==
  /\ last.step = "testSecret" /\ ~Exists(versions, last.token)
  /\ last.result = "ResourceNotFoundException"
  /\ Holders(labels, "AWSPENDING") # {}
  /\ ~inflight.active /\ labels = last.before

\* C12: finishSecret for a token of which the store holds no version (so also
\* for a token for which no createSecret ever ran) is not accepted: it does not
\* get past its first store call, it reports an error, and it leaves every
\* label where it was.
C12_FinishWithoutVersionFails ==
  /\ inflight.active => Exists(versions, inflight.token)
  /\ (last.step = "finishSecret" /\ ~inflight.active
      /\ ~Exists(versions, last.token)) =>
       /\ last.result # "ok"
       /\ labels = last.before

\* C12 witness: finishSecret named the version that holds AWSCURRENT as the
\* previous one and a token without version, and the store refused the move.
C12_Witness ==
  /\ last.step = "finishSecret" /\ ~inflight.active
  /\ ~Exists(versions, last.token)
  /\ last.prev \in Current(last.before)
  /\ last.fault = "none" /\ last.result = "ResourceNotFoundException"
  /\ labels = last.before

\* The reference of C13: the outcome the validator owes each value.
ValidatorReference(v) ==
  IF v.type \in {"undefined", "null"} \/ (v.type = "string" /\ Len(v.val) = 0)
  THEN "Missing"
  ELSE IF v.type # "string" THEN "WrongType"
  ELSE IF Len(v.val) < 8 THEN "TooShort"
  ELSE IF Len(v.val) > 1224 THEN "TooLong"
  ELSE IF \E i \in 0..(Len(v.val) - 1) : charAt(v.val, i) \notin AlnumChars
  THEN "InvalidCharacters"
  ELSE "ok"

\* C13: for every candidate value the validator's outcome is the reference:
\* Missing if absent or the empty string, otherwise WrongType if not a string,
\* otherwise TooShort below 8, TooLong above 1224, InvalidCharacters outside
\* [A-Za-z0-9], otherwise success.
C13_ValidatorIsReference ==
  (call.fn = "validateExternalId" /\ call.done) =>
    call.output = ValidatorReference(call.input)

\* C14: for every byte string of the random source the generator returns a
\* string of exactly 32 characters, each one of the 62 letters and digits.
C14_GeneratedShape ==
  (call.fn = "generateSecureExternalId" /\ call.done) =>
    /\ Len(call.output) = 32
    /\ \A i \in 0..31 : charAt(call.output, i) \in AlnumChars
    /\ Cardinality(AlnumChars) = 62

\* C14 witness: a byte string with bytes above the size of the alphabet, some
\* of them falling on a letter and some on a digit.
C14_Witness ==
  /\ call.fn = "generateSecureExternalId" /\ call.done
  /\ \E i \in 0..31 : call.input[i] >= 200 /\ charAt(call.output, i) = "9"
  /\ \E i \in 0..31 : call.input[i] = 255 /\ charAt(call.output, i) = "H"

\* How many byte values the generator maps to each symbol, read off the
\* generator itself.
SymbolOfByte ==
  [ b \in ByteValues |->
      charAt(generateSecureExternalId([ i \in 0..(length - 1) |-> b ]), 0) ]

ByteCount ==
  [ c \in Range(characters) |->
      Cardinality({ b \in ByteValues : SymbolOfByte[b] = c }) ]

\* C15: every symbol of the alphabet is the image of the same number of byte
\* values, so that a uniform byte gives a uniform symbol.
C15_UniformSymbols ==
  (call.fn = "generateSecureExternalId" /\ call.done) =>
    \A i \in 0..31 : \A c \in Range(characters) :
      ByteCount[charAt(call.output, i)] = ByteCount[c]

\* C16: a createSecret invocation that wrote a version to the store had run
\* the validator on the candidate before.
C16_CreateValidates ==
  (last.step = "createSecret" /\ last.wrote) => last.validated

\* C17: after a finishSecret that returned 200, the version of its token holds
\* AWSCURRENT and does not carry AWSPENDING.
C17_PromotedNotPending ==
  (last.step = "finishSecret" /\ last.result = "ok" /\ ~inflight.active) =>
     /\ "AWSCURRENT" \in labels[last.token]
     /\ "AWSPENDING" \notin labels[last.token]

C20_PhasesKeepCurrent ==
  (last.step \in {"createSecret", "setSecret", "testSecret"}
   /\ ~inflight.active) =>
     Current(labels) = Current(last.before)

\* C20 witness: createSecret wrote a pending version, and AWSCURRENT is on the
\* version it was on, which is not the new version.
C20_Witness ==
  /\ last.step = "createSecret" /\ last.wrote /\ ~inflight.active
  /\ labels # last.before
  /\ Current(labels) = Current(last.before)
  /\ last.token \notin Current(labels)

\* C21: every step that completes a setSecret invocation returns 200, makes
\* no store call and leaves every version and every label as it was.
C21_SetSecretNoOp ==
  [][(last'.step = "setSecret" /\ last' # last) =>
       /\ last'.result = "ok"
       /\ last'.calls = 0
       /\ versions' = versions
       /\ labels' = labels]_vars

\* C21 witness: setSecret returned 200 for a token that has no version.
C21_Witness ==
  /\ last.step = "setSecret" /\ last.result = "ok" /\ last.calls = 0
  /\ ~Exists(versions, last.token)
  /\ Holders(labels, "AWSPENDING") # {}

Steps == {"createSecret", "setSecret", "testSecret", "finishSecret"}

\* C22: every step that completes an invocation whose Step is none of the four
\* phases reports the invalid-step error, makes no store call and leaves every
\* version and every label as it was.
C22_InvalidStepRejected ==
  [][(last'.step \notin Steps /\ last' # last) =>
       /\ last'.result = "InvalidStep"
       /\ last'.calls = 0
       /\ versions' = versions
       /\ labels' = labels]_vars

\* C22 witness: an invocation with another Step was refused while a pending
\* version of its token existed.
C22_Witness ==
  /\ last.step \in OtherSteps /\ last.result = "InvalidStep"
  /\ "AWSPENDING" \in labels[last.token]

PropsReference(props) ==
  LET account == props.externalAccountId
      IamOfAccount(arn) ==
        /\ Len(arn) >= 13 /\ SubSeq(arn, 1, 13) = "arn:aws:iam::"
        /\ \E i \in 1..Len(arn) :
             i + 11 <= Len(arn) /\ SubSeq(arn, i, i + 11) = account
      S3Arn(arn) == Len(arn) >= 13 /\ SubSeq(arn, 1, 13) = "arn:aws:s3:::"
      TwelveDigits ==
        /\ Len(account) = 12
        /\ \A i \in 1..Len(account) :
             SubSeq(account, i, i) \in
               {"0", "1", "2", "3", "4", "5", "6", "7", "8", "9"}
      principals == props.externalPrincipalArns
      buckets    == props.s3BucketArns
  IN  IF ~TwelveDigits THEN <<"externalAccountId">>
      ELSE IF principals = <<>> THEN <<"externalPrincipalArns">>
      ELSE IF buckets = <<>> THEN <<"s3BucketArns">>
      ELSE IF \E i \in 1..Len(principals) : ~IamOfAccount(principals[i])
      THEN <<"externalPrincipalArns[index]",
             (CHOOSE i \in 1..Len(principals) :
                /\ ~IamOfAccount(principals[i])
                /\ \A j \in 1..(i - 1) : IamOfAccount(principals[j])) - 1>>
      ELSE IF \E i \in 1..Len(buckets) : ~S3Arn(buckets[i])
      THEN <<"s3BucketArns[index]",
             (CHOOSE i \in 1..Len(buckets) :
                /\ ~S3Arn(buckets[i])
                /\ \A j \in 1..(i - 1) : S3Arn(buckets[j])) - 1>>
      ELSE <<"none">>

ErrorOf(output) ==
  IF output.index = -1 THEN <<output.err>> ELSE <<output.err, output.index>>

\* C25 as stated: constructing the stack succeeds exactly when the five
\* conditions hold, and otherwise throws the error of the first failing one.
C25_ConstructIffValid ==
  (call.fn = "CrossAccountAccessStack" /\ call.done) =>
    ErrorOf(call.output) = PropsReference(call.input)

\* C25 amended: validateProps returns exactly when the five conditions hold,
\* and otherwise throws the error of the first failing one.
C25_ValidatePropsIsReference ==
  (call.fn = "validateProps" /\ call.done) =>
    ErrorOf(call.output) = PropsReference(call.input)

\* C25 witness: the account id and both arrays pass, the second principal ARN
\* is the first to fail, and a bucket ARN fails as well.
C25_Witness ==
  /\ call.fn = "validateProps" /\ call.done
  /\ call.output = Thrown("externalPrincipalArns[index]", 1)
  /\ \E i \in 1..Len(call.input.s3BucketArns) :
       call.input.s3BucketArns[i] = "invalid-s3-arn"

\* C26: two createSecret invocations of one token running concurrently.  Each
\* generates its value locally and makes one store call, so the interleavings
\* are the two orders of the two PutSecretValue calls: the invocation whose
\* call comes second, with no transport failure on either, returns 200 as
\* well, and the store has one version of the token with one value.
C26_ConcurrentCreateBothSucceed ==
  (last.step = "createSecret" /\ last.afterWrite /\ last.fault = "none") =>
     /\ last.result = "ok"
     /\ Cardinality({ v \in versions : v.id = last.token }) = 1
     /\ ValueOf(last.token) = firstValue[last.token]

\* The pending version of the token exists and its stored value passes the
\* validator.
PendingValid(vs, ls, token) ==
  \E v \in vs :
    /\ v.id = token /\ "AWSPENDING" \in ls[token]
    /\ Len(v.value) > 0 /\ IsJson(v.value)
    /\ validateExternalId(JSONparseExternalId(v.value)) = "ok"

\* C27: testSecret, when the store answers, returns 200 exactly if the store
\* holds a version whose id is the token, which carries AWSPENDING and whose
\* stored externalId passes the validator; it throws on a stored value that
\* is invalid, whatever was generated.
C27_TestDecidesOnStored ==
  [][(last'.step = "testSecret" /\ last' # last /\ last'.fault = "none") =>
       (last'.result = "ok" <=> PendingValid(versions, labels, last'.token))]_vars

\* C27 witness: testSecret threw on a pending version of the token whose
\* stored value has a character outside the letters and digits.
C27_Witness ==
  /\ last.step = "testSecret" /\ last.result = "InvalidCharacters"
  /\ last.validated
  /\ "AWSPENDING" \in labels[last.token]
  /\ ValueOf(last.token) # NoValue

\* C28: finishSecret without a previousVersionId, for a token whose version
\* carries AWSPENDING and with no transport failure, returns 200, leaves
\* AWSCURRENT on the version of the token alone, and makes the one store call
\* that moves AWSCURRENT (none that removes AWSPENDING).
C28_FinishWithoutPrevious ==
  (last.step = "finishSecret" /\ last.prev = NoVersion /\ last.fault = "none"
   /\ "AWSPENDING" \in last.before[last.token]) =>
     /\ last.result = "ok"
     /\ Current(labels) = {last.token}
     /\ last.calls = 1

\* C29 as stated: a createSecret that threw added no version of its token and
\* moved no label.
C29_FailedCreateAddsNothing ==
  (last.step = "createSecret" /\ last.result # "ok" /\ ~inflight.active) =>
     /\ ~last.wrote
     /\ labels = last.before

\* C29 amended: a createSecret that threw because the store refused the put
\* or could not be reached added no version of its token and moved no label.
C29_RefusedCreateAddsNothing ==
  (last.step = "createSecret" /\ last.result # "ok" /\ last.fault # "lost"
   /\ ~inflight.active) =>
     /\ ~last.wrote
     /\ labels = last.before

\* C29 witness: createSecret threw with the store unavailable while another
\* version carried AWSPENDING, and its token has no version.
C29_Witness ==
  /\ last.step = "createSecret" /\ last.fault = "unavailable"
  /\ last.result = "ServiceUnavailable"
  /\ ~Exists(versions, last.token)
  /\ Holders(labels, "AWSPENDING") # {}
  /\ labels = last.before

\* C30: every value that is present (neither undefined nor null) and is not
\* a string, the number 0 and the boolean false included, is rejected by the
\* validator as WrongType, never as Missing.
C30_NonStringIsWrongType ==
  (call.fn = "validateExternalId" /\ call.done
   /\ call.input.type \notin {"undefined", "null", "string"}) =>
     call.output = "WrongType"

\* C31: the SecretString of every version createSecret wrote is the JSON of
\* an object with the one field externalId holding a generated string, the
\* externalId testSecret parses from it is that string, and the outcome of a
\* testSecret that read it is the validator's outcome for that string.
C31_PayloadRoundTrip ==
  \A v \in versions :
    v.id \in Tokens =>
      \E seed \in Seeds :
        LET generated == GeneratedIds[seed]
        IN  /\ v.value = "{\"externalId\":\"" \o generated \o "\"}"
            /\ IsJson(v.value)
            /\ JSONparseExternalId(v.value) = Str(generated)
            /\ (last.step = "testSecret" /\ last.token = v.id
                /\ last.validated) =>
                  last.result = validateExternalId(Str(generated))

\* C31 witness: testSecret read the version createSecret wrote for its token
\* and validated the externalId parsed from it, while the other token has a
\* version with the other generated value.
C31_Witness ==
  /\ last.step = "testSecret" /\ last.validated /\ last.result = "ok"
  /\ \A t \in Tokens : Exists(versions, t)
  /\ \E t \in Tokens : ValueOf(t) # ValueOf(last.token)

\* The account-id field of an IAM ARN: arn:aws:iam::<account-id>:<resource>
AccountField(arn) ==
  IF Len(arn) >= 26 /\ SubSeq(arn, 1, 13) = "arn:aws:iam::"
     /\ SubSeq(arn, 26, 26) = ":"
  THEN SubSeq(arn, 14, 25)
  ELSE ""

\* C32: every principal ARN of properties validateProps accepts is an IAM ARN
\* whose account-id field is externalAccountId; an ARN of another account
\* with the digits of externalAccountId in its resource name is refused.
C32_PrincipalsOfExternalAccount ==
  (call.fn = "validateProps" /\ call.done /\ call.output = Constructed) =>
    \A i \in 1..Len(call.input.externalPrincipalArns) :
      AccountField(call.input.externalPrincipalArns[i])
        = call.input.externalAccountId

\* C33: testSecret, whether it returns 200, throws the not-found error of the
\* store or throws on the value it read, leaves every version, every value
\* and every staging label as it was.
C33_TestSecretReadsOnly ==
  [][(last'.step = "testSecret" /\ last' # last) =>
       /\ versions' = versions
       /\ labels' = labels]_vars

\* C33 witness: testSecret threw on a pending version whose stored value is
\* too short, and the version still carries AWSPENDING with that value.
C33_Witness ==
  /\ last.step = "testSecret" /\ last.result = "TooShort"
  /\ "AWSPENDING" \in labels[last.token]
  /\ labels = last.before
  /\ ValueOf(last.token) = firstValue[last.token]

\* C34: for every byte string of the random source, the string the generator
\* returns passes the validator, and so does the externalId parsed from the
\* payload createSecret makes of it, which is what testSecret validates when
\* the store returns the payload as written.
C34_GeneratedPassesValidator ==
  (call.fn = "generateSecureExternalId" /\ call.done) =>
    /\ validateExternalId(Str(call.output)) = "ok"
    /\ IsJson(JSONstringify(call.output))
    /\ validateExternalId(JSONparseExternalId(JSONstringify(call.output))) = "ok"

\* C34 witness: every byte is beyond the size of the alphabet, and the
\* string generated from them passes the validator.
C34_Witness ==
  /\ call.fn = "generateSecureExternalId" /\ call.done
  /\ \A i \in 0..(length - 1) : call.input[i] >= Len(characters)
  /\ validateExternalId(Str(call.output)) = "ok"

====
